---- MODULE Spec2Model ----
(***************************************************************************)
(* noditor-graph: the processing pipeline (src/unnamed/part_002, the       *)
(* module imported as "../src/processing.ts") and the link aggregation     *)
(* graphologyToMD (src/src/export.ts) with the example callbacks of        *)
(* src/example/export.shared.ts.                                           *)
(*                                                                         *)
(* The program is single-threaded and synchronous: every public method is  *)
(* one action, and the run of a method is computed by a recursive operator *)
(* that follows the method's loop.  What a call did (the steps it invoked, *)
(* what it returned or threw) is kept in the variable last (pipeline) and  *)
(* in the variables of the aggregation pass.                               *)
(***************************************************************************)
EXTENDS Integers, Sequences, FiniteSets, TLC

VARIABLES
    processors,   \* ProcessingPipeline.processors: sequence of step kinds
    ctxHeap,      \* the context objects allocated so far (object identity = index)
    context,      \* ProcessingPipeline.context: reference into ctxHeap
    held,         \* reference returned by the caller's last getContext(), 0 if none
    store,        \* the attribute store: node "n", attribute "value"
    last,         \* what the last call on the pipeline did
    rows,         \* graphologyToMD: rows = [nodes, links]
    useFilter,    \* graphologyToMD: whether nodeFilter was supplied
    fold,         \* graphologyToMD: the processLink given, "example" or "lenient"
    items,        \* graphologyToMD: the Map items, [keys: insertion order, rec: key -> record]
    pos,          \* graphologyToMD: index of the next row of rows.links
    pc,           \* graphologyToMD: "scan", "done" or "failed"
    err,          \* graphologyToMD: the error thrown, NoError if none
    trace,        \* graphologyToMD: the callbacks invoked so far, in order
    sunk,         \* graphologyToMD: the mappings handed to generateMarkdown, in order
    graph,        \* the DirectedGraph: [nodes, attrs, edges], nodes and edges in insertion order
    reply         \* what the last call on the graph did and returned

pipeVars == <<processors, ctxHeap, context, held, store, last>>
aggVars == <<rows, useFilter, fold, items, pos, pc, err, trace, sunk>>
graphVars == <<graph, reply>>
vars == <<processors, ctxHeap, context, held, store, last,
          rows, useFilter, fold, items, pos, pc, err, trace, sunk, graph, reply>>

----------------------------------------------------------------------------
(* Bounds *)

MaxSteps == 3      \* steps added to one pipeline
MaxInput == 1      \* inputs are 0..MaxInput
MaxMany == 2       \* length of the list given to executeMany
MaxCtxObjs == 3    \* context objects allocated
MaxStore == 3      \* value of the store attribute
ValMod == 5        \* step outputs are kept in 0..ValMod-1
MaxLinks == 3      \* length of rows.links
MaxPasses == 2     \* calls of graphologyToMD on the same rows
MaxEdges == 2      \* edges of the graph
MaxBranches == 2   \* steps given to one fan-out

----------------------------------------------------------------------------
(* Processing context (part_002:6-10) *)

\* { ...c, ...u }: the spread of part_002:70.
SpreadDeep(c, u) ==
    [k \in (DOMAIN c) \cup (DOMAIN u) |->
        IF k \in DOMAIN u
        THEN IF k \in DOMAIN c
             THEN [j \in (DOMAIN c[k]) \cup (DOMAIN u[k]) |->
                      IF j \in DOMAIN u[k] THEN u[k][j] ELSE c[k][j]]
             ELSE u[k]
        ELSE c[k]]

Spread(c, u) ==
    [k \in (DOMAIN c) \cup (DOMAIN u) |-> IF k \in DOMAIN u THEN u[k] ELSE c[k]]

\* context.mappings?.[mappingName]?.[key] ?? defaultValue
applyMapping(mappingName, key, ctx, defaultValue) ==
    IF /\ "mappings" \in DOMAIN ctx
       /\ mappingName \in DOMAIN ctx["mappings"]
       /\ key \in DOMAIN ctx["mappings"][mappingName]
    THEN ctx["mappings"][mappingName][key]
    ELSE defaultValue

GraphRef == [ref |-> 0]

\* The contexts a pipeline is constructed with (part_002:32): graph is
\* required, mappings is optional.
InitContexts ==
    { [graph |-> GraphRef],
      [graph |-> GraphRef, mappings |-> [mult |-> [tier |-> 1], bonus |-> [tier |-> 2]]] }

\* The partial contexts given to updateContext by the caller.
Partials ==
    { [mappings |-> [mult |-> [tier |-> 2]]],
      [seed |-> [v |-> 1]],
      [graph |-> [ref |-> 1]],
      [mappings |-> [bonus |-> [tier |-> 1]], seed |-> [v |-> 2]] }

----------------------------------------------------------------------------
(* Steps: the Processor functions given to add (part_002:15-22) *)

StepKinds == {"inc", "scale", "write", "writefail", "upd"}

\* The partial context the step "upd" gives to updateContext of its pipeline.
UpdPartial(ctx) ==
    [mappings |-> [mult |-> [tier |-> (applyMapping("mult", "tier", ctx, 0) + 1) % ValMod]]]

\* The value a step returns for (input, context), for the steps that return.
StepOut(kind, input, ctx) ==
    CASE kind = "inc" -> (input + 1) % ValMod
      [] kind = "scale" -> (2 * input + applyMapping("mult", "tier", ctx, 0)) % ValMod
      [] OTHER -> input

Writes(kind) == kind \in {"write", "writefail"}
Throws(kind) == kind = "writefail"

\* An updateContext that writes the updates into the object the pipeline
\* refers to: Object.assign(this.context, updates).
UpdateContextInPlace(st, updates) ==
    [st EXCEPT !.heap[st.ctx] = Spread(@, updates)]

\* updateContext (part_002:69-72) on the run state: a new object, the
\* reference moved to it.
UpdateContextOn(st, updates) ==
    [st EXCEPT !.heap = Append(st.heap, Spread(st.heap[st.ctx], updates)),
               !.ctx = Len(st.heap) + 1]

\* processor(data, this.context): one invocation of the callback of reduce
\* (part_002:47).  st = [data, store, heap, ctx, thrown, calls].
Invoke(kind, st) ==
    LET ctx == st.heap[st.ctx]
        s1 == [st EXCEPT !.calls = Append(st.calls,
                  [kind |-> kind, input |-> st.data, ctx |-> st.ctx])]
        s2 == IF Writes(kind) THEN [s1 EXCEPT !.store = s1.store + 1] ELSE s1
        s3 == IF kind = "upd" THEN UpdateContextOn(s2, UpdPartial(ctx)) ELSE s2
    IN IF Throws(kind)
       THEN [s3 EXCEPT !.thrown = TRUE]
       ELSE [s3 EXCEPT !.data = StepOut(kind, st.data, ctx)]

\* A reduce that catches a step's error and goes on with the next step.
RECURSIVE ReduceSwallow(_, _, _)
ReduceSwallow(procs, i, st) ==
    IF i > Len(procs)
    THEN st
    ELSE ReduceSwallow(procs, i + 1, [Invoke(procs[i], st) EXCEPT !.thrown = FALSE])

\* A reduce that visits the steps from the last to the first.
RECURSIVE ReduceRight(_, _, _)
ReduceRight(procs, i, st) ==
    IF i > Len(procs) \/ st.thrown
    THEN st
    ELSE ReduceRight(procs, i + 1, Invoke(procs[Len(procs) + 1 - i], st))

\* this.processors.reduce(callback, input) from index i on (part_002:46-49):
\* steps in index order, an error ends the loop.
RECURSIVE Reduce(_, _, _)
Reduce(procs, i, st) ==
    IF i > Len(procs) \/ st.thrown
    THEN st
    ELSE Reduce(procs, i + 1, Invoke(procs[i], st))

\* execute(input) on the pipeline state st (part_002:45-50).
execute(procs, input, st) ==
    Reduce(procs, 1, [st EXCEPT !.data = input, !.calls = <<>>])

\* inputs.map(...) that visits the inputs from the last to the first.
RECURSIVE MapReversed(_, _, _, _)
MapReversed(procs, inputs, i, acc) ==
    IF i > Len(inputs) \/ acc.st.thrown
    THEN acc
    ELSE LET r == execute(procs, inputs[Len(inputs) + 1 - i], acc.st)
         IN MapReversed(procs, inputs, i + 1,
                [st |-> r,
                 outs |-> IF r.thrown THEN acc.outs ELSE <<r.data>> \o acc.outs,
                 runs |-> Append(acc.runs, r.calls)])

\* inputs.map((input) => this.execute(input)) from index i on (part_002:56).
RECURSIVE Map(_, _, _, _)
Map(procs, inputs, i, acc) ==
    IF i > Len(inputs) \/ acc.st.thrown
    THEN acc
    ELSE LET r == execute(procs, inputs[i], acc.st)
         IN Map(procs, inputs, i + 1,
                [st |-> r,
                 outs |-> IF r.thrown THEN acc.outs ELSE Append(acc.outs, r.data),
                 runs |-> Append(acc.runs, r.calls)])

executeMany(procs, inputs, st) ==
    Map(procs, inputs, 1, [st |-> st, outs |-> <<>>, runs |-> <<>>])

----------------------------------------------------------------------------
(* Link aggregation: the data of graphologyToMD (export.ts:35-60) *)

NodeIds == {"A", "B"}
NodeTypes == {"item", "attribute", "tier"}
NameOf(id) == IF id = "A" THEN "Alpha" ELSE "Beta"

\* The nodes of a graph output: {id, ...attributes}, ids unique as in a store.
Nodes == {[id |-> i, name |-> NameOf(i), type |-> t] : i \in NodeIds, t \in NodeTypes}
NodeLists ==
    {<<>>} \cup {<<n>> : n \in Nodes}
           \cup {p \in {<<n, m>> : n \in Nodes, m \in Nodes} : p[1].id # p[2].id}

\* The links of a graph output: {source, target, ...attributes}; the edges
\* to "B" carry an amount, the edges to "A" carry none (sword.type.ts:31).
LinkOf(s, t) ==
    IF t = "B" THEN [source |-> s, target |-> t, amount |-> 7]
               ELSE [source |-> s, target |-> t]
Links == {LinkOf(s, t) : s \in NodeIds, t \in NodeIds}

\* undefined, as Array.prototype.find returns it
Undefined == [undefined |-> TRUE]

\* Map<string, TItem>: keys in insertion order, and the record of each key.
EmptyMap == [keys |-> <<>>, rec |-> <<>>]
MapHas(m, k) == k \in DOMAIN m.rec
\* A get that hands out an empty record instead of the one stored.
MapGetFresh(m, k) ==
    [id |-> "", name |-> "", type |-> "", set |-> "", slot |-> "", tier |-> "",
     attributes |-> <<>>]

MapGet(m, k) == m.rec[k]

\* A set that moves a key that is already present to the end.
MapSetMoving(m, k, v) ==
    [keys |-> Append(SelectSeq(m.keys, LAMBDA x : x # k), k),
     rec |-> (k :> v) @@ m.rec]

\* Map.prototype.set: a new key goes last, a present key keeps its place.
MapSet(m, k, v) ==
    [keys |-> IF MapHas(m, k) THEN m.keys ELSE Append(m.keys, k),
     rec |-> (k :> v) @@ m.rec]

NoError == [origin |-> "none", source |-> "", target |-> ""]

----------------------------------------------------------------------------
(* The callbacks exportAll gives to graphologyToMD (export.shared.ts:15-126) *)

\* nodeFilter (export.shared.ts:17)
nodeFilter(node) == node.type = "item"

\* createEmptyItem (export.shared.ts:18-29); description, weight and value
\* are copied fields that no branch reads and are left out.
createEmptyItem ==
    [id |-> "", name |-> "", type |-> "", set |-> "", slot |-> "", tier |-> "",
     attributes |-> <<>>]

\* populateItemFromNode (export.shared.ts:85-106)
populateItemFromNode(data, node) ==
    LET d1 == [data EXCEPT !.id = node.id, !.name = node.name, !.type = node.type]
        d2 == IF "set" \in DOMAIN node THEN [d1 EXCEPT !.set = node.name] ELSE d1
        d3 == IF "slot" \in DOMAIN node THEN [d2 EXCEPT !.slot = node.name] ELSE d2
    IN IF "tier" \in DOMAIN node THEN [d3 EXCEPT !.tier = node.name] ELSE d3

\* link.amount || 0
AmountOr0(link) == IF "amount" \in DOMAIN link THEN link.amount ELSE 0

\* A processLink that writes the attributes entry whatever the type of the
\* target.
FoldIntoAnyType(data, link, targetNode) ==
    [data EXCEPT !.attributes = (targetNode.id :> AmountOr0(link)) @@ @]

\* The body of processLink after its guard (export.shared.ts:116-124).
FoldInto(data, link, targetNode) ==
    CASE targetNode.type = "set" -> [data EXCEPT !.set = targetNode.name]
      [] targetNode.type = "slot" -> [data EXCEPT !.slot = targetNode.name]
      [] targetNode.type = "tier" -> [data EXCEPT !.tier = targetNode.name]
      [] targetNode.type = "attribute" ->
            [data EXCEPT !.attributes = (targetNode.id :> AmountOr0(link)) @@ @]
      [] OTHER -> data

\* A processLink that adds the amount of the link to the entry of the target:
\* data.attributes[targetNode.id] = (data.attributes[targetNode.id] || 0) + (link.amount || 0)
TallyInto(data, link, targetNode) ==
    LET before == IF targetNode.id \in DOMAIN data.attributes
                  THEN data.attributes[targetNode.id] ELSE 0
    IN [data EXCEPT !.attributes = (targetNode.id :> (before + AmountOr0(link))) @@ @]

\* processLink (export.shared.ts:107-125): [thrown, data].  The fold
\* "lenient" is a processLink that leaves the record alone when the target
\* is undefined instead of throwing; the fold "tally" does the same and
\* accumulates (TallyInto) on a target that is defined.
processLink(kind, data, link, targetNode) ==
    IF targetNode = Undefined
    THEN [thrown |-> kind = "example", data |-> data]
    ELSE [thrown |-> FALSE,
          data |-> IF kind = "tally" THEN TallyInto(data, link, targetNode)
                   ELSE FoldInto(data, link, targetNode)]

----------------------------------------------------------------------------
(* graphologyToMD (export.ts:61-93) *)

\* The callback of rows.nodes.find for the source (export.ts:70-73).
SourceMatchNoFilter(n, source, filtered) == n.id = source

SourceMatch(n, source, filtered) ==
    IF n.id # source THEN FALSE
    ELSE IF filtered THEN nodeFilter(n) ELSE TRUE

\* The callback of rows.nodes.find for the target, with the filter applied.
TargetMatchFiltered(n, target, filtered) ==
    n.id = target /\ (filtered => nodeFilter(n))

\* The callback of rows.nodes.find for the target (export.ts:84).
TargetMatch(n, target, filtered) == n.id = target

\* Array.prototype.find: the index of the first element that matches, 0 if none.
\* match[j] is what the callback returns for nodes[j].
FindIndex(nodes, match) ==
    LET hits == {j \in 1..Len(nodes) : match[j]}
    IN IF hits = {} THEN 0 ELSE CHOOSE j \in hits : \A k \in hits : j <= k

NodeAt(nodes, i) == IF i = 0 THEN Undefined ELSE nodes[i]

Event(cb, link, node) == [cb |-> cb, link |-> link, node |-> node]

\* The nodeFilter calls made by the find for the source of link i: one for
\* each node with the id of the source, up to the node found.
FilterEvents(nodes, i, source, found) ==
    LET upto == IF found = 0 THEN Len(nodes) ELSE found
        hit == SelectSeq(SubSeq(nodes, 1, upto), LAMBDA n : n.id = source)
    IN [j \in 1..Len(hit) |-> Event("nodeFilter", i, hit[j].id)]

----------------------------------------------------------------------------
(* The graph store: a graphology DirectedGraph, as export.ts and part_002 use it *)

\* The keys of the nodes, in the order the nodes are added.
StoreKeys == <<"A", "B", "C">>

\* The attribute maps of a node: a type, a falsy type, no type but an
\* attribute "id" of its own, and a type that names a member of
\* Object.prototype.
AttrMaps ==
    { [type |-> "item"], [type |-> ""], [id |-> "B"], [type |-> "constructor"] }

\* The attributes of the edge from s to t (sword.type.ts:31: amount is optional).
EdgeAttrs(s, t) == IF t = "B" THEN [amount |-> 7] ELSE <<>>

\* createGraph() (graph.ts:4-12)
EmptyGraph == [nodes |-> <<>>, attrs |-> <<>>, edges |-> <<>>]

NoReply == [op |-> "none"]

\* The elements of a sequence, and a sequence without the elements it has
\* in common with another.
Range(q) == {q[j] : j \in 1..Len(q)}
Without(q, seen) == SelectSeq(q, LAMBDA x : x \notin Range(seen))

\* graph.outNeighbors, graph.inNeighbors and graph.neighbors (part_002:102-106):
\* the neighbors in the order of the edges, for neighbors the in-neighbors
\* first and every neighbor once.
RECURSIVE Ends(_, _, _)
Ends(edges, n, dir) ==
    IF edges = <<>> THEN <<>>
    ELSE LET e == edges[Len(edges)]
             before == Ends(SubSeq(edges, 1, Len(edges) - 1), n, dir)
         IN IF dir = "out" /\ e.source = n THEN Append(before, e.target)
            ELSE IF dir = "in" /\ e.target = n THEN Append(before, e.source)
            ELSE before

neighborFn(g, nodeId, direction) ==
    IF direction = "in" THEN Ends(g.edges, nodeId, "in")
    ELSE IF direction = "out" THEN Ends(g.edges, nodeId, "out")
    ELSE Ends(g.edges, nodeId, "in")
             \o Without(Ends(g.edges, nodeId, "out"), Ends(g.edges, nodeId, "in"))

\* A neighbor record is an object of its own, [live |-> FALSE, val], or the
\* attribute object the store holds for a node, [live |-> TRUE, key].
View(g, r) == IF r.live THEN g.attrs[r.key] ELSE r.val

\* A record that is the attribute object of the store itself.
LiveRecord(g, id) == [live |-> TRUE, key |-> id]

\* ({ id, ...graph.getNodeAttributes(id) }) (part_002:108-111): a new
\* object, the attributes copied after id.
NodeRecord(g, id) == [live |-> FALSE, val |-> Spread([id |-> id], g.attrs[id])]

\* getConnectedNodes (part_002:97-112)
getConnectedNodes(g, nodeId, direction) ==
    LET ids == neighborFn(g, nodeId, direction)
    IN [j \in 1..Len(ids) |-> NodeRecord(g, ids[j])]

\* The members an object literal {} inherits from Object.prototype.
ProtoKeys == {"constructor", "toString", "__proto__"}

\* node.type || "unknown" (part_002:126)
TypeOrUnknown(rec) ==
    IF "type" \in DOMAIN rec /\ rec.type # "" THEN rec.type ELSE "unknown"

\* A loop that puts each record at the head of its group.
RECURSIVE GroupLoopUnshift(_, _, _, _)
GroupLoopUnshift(g, connected, i, acc) ==
    IF i > Len(connected) \/ acc.thrown
    THEN acc
    ELSE LET type == TypeOrUnknown(View(g, connected[i]))
             own == type \in DOMAIN acc.grouped
         IN IF ~own /\ type \in ProtoKeys
            THEN [acc EXCEPT !.thrown = TRUE]
            ELSE GroupLoopUnshift(g, connected, i + 1,
                     [acc EXCEPT !.grouped =
                         (type :> (<<connected[i]>> \o
                                   (IF own THEN acc.grouped[type] ELSE <<>>))) @@ @])

\* The loop of groupConnectedNodesByType from record i on (part_002:125-131):
\* acc = [grouped, thrown].  grouped[type] of a type that grouped does not
\* own and Object.prototype has is the inherited member: it is truthy, no
\* list is made, and push on it is a TypeError.
RECURSIVE GroupLoop(_, _, _, _)
GroupLoop(g, connected, i, acc) ==
    IF i > Len(connected) \/ acc.thrown
    THEN acc
    ELSE LET type == TypeOrUnknown(View(g, connected[i]))
             own == type \in DOMAIN acc.grouped
         IN IF ~own /\ type \in ProtoKeys
            THEN [acc EXCEPT !.thrown = TRUE]
            ELSE GroupLoop(g, connected, i + 1,
                     [acc EXCEPT !.grouped =
                         (type :> Append(IF own THEN acc.grouped[type] ELSE <<>>,
                                         connected[i])) @@ @])

\* groupConnectedNodesByType (part_002:117-134): [connected, grouped, thrown]
groupConnectedNodesByType(g, nodeId, direction) ==
    LET connected == getConnectedNodes(g, nodeId, direction)
        r == GroupLoop(g, connected, 1, [grouped |-> <<>>, thrown |-> FALSE])
    IN [connected |-> connected, grouped |-> r.grouped, thrown |-> r.thrown]

\* graphologyToD3 (export.ts:7-23)
graphologyToD3(g) ==
    [nodes |-> [j \in 1..Len(g.nodes) |-> Spread([id |-> g.nodes[j]], g.attrs[g.nodes[j]])],
     links |-> [j \in 1..Len(g.edges) |->
                   Spread([source |-> g.edges[j].source, target |-> g.edges[j].target],
                          g.edges[j].attrs)]]

----------------------------------------------------------------------------
(* The pipeline: constructor and public methods *)

Inputs == 0..MaxInput

RECURSIVE SeqsUpTo(_, _)
SeqsUpTo(S, n) ==
    IF n = 0 THEN {<<>>}
    ELSE LET shorter == SeqsUpTo(S, n - 1)
         IN shorter \cup {Append(q, e) : q \in {r \in shorter : Len(r) = n - 1}, e \in S}

\* The steps of procs of one of the kinds.
Count(procs, kinds) == Cardinality({i \in 1..Len(procs) : procs[i] \in kinds})
WriteKinds == {k \in StepKinds : Writes(k)}
UpdKinds == {"upd"}

NoCall ==
    [op |-> "none", inputs |-> <<>>, thrown |-> FALSE, outs |-> <<>>, runs |-> <<>>,
     store0 |-> 0, ctx0 |-> 0, heap0 |-> <<>>, partial |-> <<>>]

\* The run state a method starts from.
Now == [data |-> 0, store |-> store, heap |-> ctxHeap, ctx |-> context,
        thrown |-> FALSE, calls |-> <<>>]

\* new ProcessingPipeline(context) (part_002:30-32)
Init ==
    /\ processors = <<>>
    /\ \E c \in InitContexts : ctxHeap = <<c>>
    /\ context = 1
    /\ held = 0
    /\ store = 0
    /\ last = NoCall
    /\ rows = [nodes |-> <<>>, links |-> <<>>]
    /\ useFilter = FALSE
    /\ fold = "example"
    /\ items = EmptyMap
    /\ pos = 1
    /\ pc = "idle"
    /\ err = NoError
    /\ trace = <<>>
    /\ sunk = <<>>
    /\ graph = EmptyGraph
    /\ reply = NoReply

\* add(processor) (part_002:37-40)
Add(kind) ==
    /\ Len(processors) < MaxSteps
    /\ processors' = Append(processors, kind)
    /\ last' = [NoCall EXCEPT !.op = "add"]
    /\ UNCHANGED <<ctxHeap, context, held, store>>

\* The room the bounds leave for n runs of the pipeline.
Room(n) ==
    /\ store + n * Count(processors, WriteKinds) <= MaxStore
    /\ Len(ctxHeap) + n * Count(processors, UpdKinds) <= MaxCtxObjs

\* execute(input) (part_002:45-50)
Execute(input) ==
    /\ Room(1)
    /\ LET r == execute(processors, input, Now)
       IN /\ store' = r.store
          /\ ctxHeap' = r.heap
          /\ context' = r.ctx
          /\ last' = [NoCall EXCEPT !.op = "execute", !.inputs = <<input>>,
                         !.thrown = r.thrown,
                         !.outs = IF r.thrown THEN <<>> ELSE <<r.data>>,
                         !.runs = <<r.calls>>,
                         !.store0 = store, !.ctx0 = context, !.heap0 = ctxHeap]
    /\ UNCHANGED <<processors, held>>

\* executeMany(inputs) (part_002:55-57)
ExecuteMany(inputs) ==
    /\ Room(Len(inputs))
    /\ LET m == executeMany(processors, inputs, Now)
       IN /\ store' = m.st.store
          /\ ctxHeap' = m.st.heap
          /\ context' = m.st.ctx
          /\ last' = [NoCall EXCEPT !.op = "executeMany", !.inputs = inputs,
                         !.thrown = m.st.thrown,
                         !.outs = IF m.st.thrown THEN <<>> ELSE m.outs,
                         !.runs = m.runs,
                         !.store0 = store, !.ctx0 = context, !.heap0 = ctxHeap]
    /\ UNCHANGED <<processors, held>>

\* getContext() (part_002:62-64): the caller keeps the reference.
GetContext ==
    /\ held' = context
    /\ last' = [NoCall EXCEPT !.op = "getContext", !.ctx0 = context, !.heap0 = ctxHeap]
    /\ UNCHANGED <<processors, ctxHeap, context, store>>

\* updateContext(updates) (part_002:69-72)
UpdateContext(updates) ==
    /\ Len(ctxHeap) < MaxCtxObjs
    /\ LET r == UpdateContextOn(Now, updates)
       IN /\ ctxHeap' = r.heap
          /\ context' = r.ctx
    /\ last' = [NoCall EXCEPT !.op = "updateContext", !.partial = updates,
                   !.ctx0 = context, !.heap0 = ctxHeap]
    /\ UNCHANGED <<processors, held, store>>

Next ==
    \/ \E kind \in StepKinds : Add(kind) /\ UNCHANGED <<aggVars, graphVars>>
    \/ \E input \in Inputs : Execute(input) /\ UNCHANGED <<aggVars, graphVars>>
    \/ \E inputs \in SeqsUpTo(Inputs, MaxMany) : ExecuteMany(inputs) /\ UNCHANGED <<aggVars, graphVars>>

Spec == Init /\ [][Next]_vars

\* A caller that reads and updates the context of a pipeline.
NextCtx ==
    \/ GetContext /\ UNCHANGED <<aggVars, graphVars>>
    \/ \E updates \in Partials : UpdateContext(updates) /\ UNCHANGED <<aggVars, graphVars>>

SpecCtx == Init /\ [][NextCtx]_vars

\* The state of a pass: [items, err, trace].
Pass == [items |-> items, err |-> err, trace |-> trace]

\* A missing source node that is passed over: the loop goes on.
MissingSourceSkipped(st, row, t) == [st EXCEPT !.trace = t]

\* throw new Error(`No node found for ${row.source} => ${row.target}`)
\* (export.ts:75-77)
MissingSource(st, row, t) ==
    [st EXCEPT !.trace = t,
               !.err = [origin |-> "graphologyToMD",
                        source |-> row.source, target |-> row.target]]

\* A set under the id of the link's target.
SetKeyTarget(row) == row.target

\* The key of items.set(row.source, data) (export.ts:89)
SetKey(row) == row.source

\* The body of the loop over rows.links for the row at index i
\* (export.ts:63-90).
ScanRow(st, nodes, i, row, filtered, kind) ==
    LET hasIt == MapHas(st.items, row.source)
        found == FindIndex(nodes,
                     [j \in 1..Len(nodes) |-> SourceMatch(nodes[j], row.source, filtered)])
        t1 == IF hasIt \/ ~filtered THEN st.trace
              ELSE st.trace \o FilterEvents(nodes, i, row.source, found)
    IN IF ~hasIt /\ found = 0
       THEN MissingSource(st, row, t1)
       ELSE LET data0 == IF hasIt THEN MapGet(st.items, row.source)
                         ELSE populateItemFromNode(createEmptyItem, nodes[found])
                t2 == IF hasIt THEN t1
                      ELSE t1 \o <<Event("createEmptyItem", i, ""),
                                   Event("populateItemFromNode", i, nodes[found].id)>>
                targetNode == NodeAt(nodes, FindIndex(nodes,
                    [j \in 1..Len(nodes) |-> TargetMatch(nodes[j], row.target, filtered)]))
                t3 == Append(t2, Event("processLink", i,
                          IF targetNode = Undefined THEN "undefined" ELSE targetNode.id))
                r == processLink(kind, data0, row, targetNode)
            IN IF r.thrown
               THEN [st EXCEPT !.trace = t3,
                               !.err = [origin |-> "processLink",
                                        source |-> row.source, target |-> row.target]]
               ELSE [st EXCEPT !.trace = t3,
                               !.items = MapSet(st.items, SetKey(row), r.data)]

\* graphologyToMD is called with rows, nodeFilter (or none) and processLink;
\* items is the empty Map of export.ts:61.
InitMD ==
    /\ processors = <<>>
    /\ ctxHeap = <<[graph |-> GraphRef]>>
    /\ context = 1
    /\ held = 0
    /\ store = 0
    /\ last = NoCall
    /\ \E ns \in NodeLists, ls \in SeqsUpTo(Links, MaxLinks) :
           rows = [nodes |-> ns, links |-> ls]
    /\ useFilter \in BOOLEAN
    /\ fold \in {"example", "lenient"}
    /\ items = EmptyMap
    /\ pos = 1
    /\ pc = "scan"
    /\ err = NoError
    /\ trace = <<>>
    /\ sunk = <<>>
    /\ graph = EmptyGraph
    /\ reply = NoReply

\* One iteration of for (const row of rows.links) (export.ts:63-90); a
\* throw leaves the function.
ScanLink ==
    /\ pc = "scan"
    /\ pos <= Len(rows.links)
    /\ LET r == ScanRow(Pass, rows.nodes, pos, rows.links[pos], useFilter, fold)
       IN /\ items' = r.items
          /\ err' = r.err
          /\ trace' = r.trace
          /\ pc' = IF r.err # NoError THEN "failed" ELSE "scan"
          /\ pos' = IF r.err # NoError THEN pos ELSE pos + 1
    /\ UNCHANGED <<rows, useFilter, fold, sunk>>

\* A sink in a finally block: it is also invoked when the loop threw.
FinishAnyway ==
    /\ pc \in {"scan", "failed"}
    /\ pc = "scan" => pos > Len(rows.links)
    /\ sunk' = Append(sunk, items)
    /\ trace' = Append(trace, Event("generateMarkdown", 0, ""))
    /\ pc' = "done"
    /\ UNCHANGED <<rows, useFilter, fold, items, pos, err>>

\* return generateMarkdown(items) (export.ts:92)
Finish ==
    /\ pc = "scan"
    /\ pos > Len(rows.links)
    /\ sunk' = Append(sunk, items)
    /\ trace' = Append(trace, Event("generateMarkdown", 0, ""))
    /\ pc' = "done"
    /\ UNCHANGED <<rows, useFilter, fold, items, pos, err>>

NextMD ==
    \/ ScanLink /\ UNCHANGED <<pipeVars, graphVars>>
    \/ Finish /\ UNCHANGED <<pipeVars, graphVars>>

SpecMD == InitMD /\ [][NextMD]_vars

\* A call that goes on with the mapping the call before left.
StaleItems(left) == left

\* const items = new Map() (export.ts:61): every call starts from its own
\* empty mapping, whatever a call before has left.
NewItems(left) == EmptyMap

\* graphologyToMD is called with the accumulating fold "tally" or the
\* example's.
InitTwice ==
    /\ processors = <<>>
    /\ ctxHeap = <<[graph |-> GraphRef]>>
    /\ context = 1
    /\ held = 0
    /\ store = 0
    /\ last = NoCall
    /\ \E ns \in NodeLists, ls \in SeqsUpTo(Links, MaxLinks) :
           rows = [nodes |-> ns, links |-> ls]
    /\ useFilter \in BOOLEAN
    /\ fold \in {"example", "tally"}
    /\ items = NewItems(EmptyMap)
    /\ pos = 1
    /\ pc = "scan"
    /\ err = NoError
    /\ trace = <<>>
    /\ sunk = <<>>
    /\ graph = EmptyGraph
    /\ reply = NoReply

\* The caller calls graphologyToMD again with the same arguments, after the
\* call before has returned (export.ts:35-61).
Again ==
    /\ pc = "done"
    /\ Len(sunk) < MaxPasses
    /\ items' = NewItems(items)
    /\ pos' = 1
    /\ pc' = "scan"
    /\ UNCHANGED <<rows, useFilter, fold, err, trace, sunk>>

NextTwice ==
    \/ ScanLink /\ UNCHANGED <<pipeVars, graphVars>>
    \/ Finish /\ UNCHANGED <<pipeVars, graphVars>>
    \/ Again /\ UNCHANGED <<pipeVars, graphVars>>

SpecTwice == InitTwice /\ [][NextTwice]_vars

----------------------------------------------------------------------------
(* The graph store in use: built as in sword.shared.ts, queried and exported *)

Directions == {"in", "out", "both"}

\* obj[k] = v on an attribute map
SetField(rec, k, v) == (k :> v) @@ rec

InitGraph ==
    /\ processors = <<>>
    /\ ctxHeap = <<[graph |-> GraphRef]>>
    /\ context = 1
    /\ held = 0
    /\ store = 0
    /\ last = NoCall
    /\ rows = [nodes |-> <<>>, links |-> <<>>]
    /\ useFilter = FALSE
    /\ fold = "example"
    /\ items = EmptyMap
    /\ pos = 1
    /\ pc = "idle"
    /\ err = NoError
    /\ trace = <<>>
    /\ sunk = <<>>
    /\ graph = EmptyGraph
    /\ reply = NoReply

\* The model follows a caller up to its first write after a call of
\* getConnectedNodes.
Unwritten == reply.op \notin {"setNodeAttribute", "editRecord"}

\* graph.addNode(key, attributes) (sword.shared.ts:9-14)
AddNode(attributes) ==
    /\ Unwritten
    /\ Len(graph.nodes) < Len(StoreKeys)
    /\ LET key == StoreKeys[Len(graph.nodes) + 1]
       IN graph' = [graph EXCEPT !.nodes = Append(@, key),
                                 !.attrs = (key :> attributes) @@ @]
    /\ reply' = NoReply

\* graph.addEdge(source, target, attributes) (sword.shared.ts): both nodes
\* are in the graph and the graph has no edge from source to target yet.
AddEdge(s, t) ==
    /\ Unwritten
    /\ Len(graph.edges) < MaxEdges
    /\ s \in Range(graph.nodes) /\ t \in Range(graph.nodes) /\ s # t
    /\ \A j \in 1..Len(graph.edges) :
           ~(graph.edges[j].source = s /\ graph.edges[j].target = t)
    /\ graph' = [graph EXCEPT !.edges =
                     Append(@, [source |-> s, target |-> t, attrs |-> EdgeAttrs(s, t)])]
    /\ reply' = NoReply

\* getConnectedNodes(graph, nodeId, direction) (part_002:97-112)
GetConnected(nodeId, direction) ==
    /\ Unwritten
    /\ nodeId \in Range(graph.nodes)
    /\ reply' = [op |-> "getConnectedNodes", node |-> nodeId, direction |-> direction,
                 reported |-> neighborFn(graph, nodeId, direction),
                 connected |-> getConnectedNodes(graph, nodeId, direction)]
    /\ UNCHANGED graph

\* graph.setNodeAttribute(id, "type", v) on a neighbor, after the caller got
\* its records.
SetNodeAttribute(id, v) ==
    /\ reply.op = "getConnectedNodes"
    /\ id \in Range(reply.reported)
    /\ graph' = [graph EXCEPT !.attrs[id] = SetField(@, "type", v)]
    /\ reply' = [reply EXCEPT !.op = "setNodeAttribute"]

\* record.type = v on the j-th record the caller got.
EditRecord(j, v) ==
    /\ reply.op = "getConnectedNodes"
    /\ j \in 1..Len(reply.connected)
    /\ LET r == reply.connected[j]
       IN IF r.live
          THEN /\ graph' = [graph EXCEPT !.attrs[r.key] = SetField(@, "type", v)]
               /\ reply' = [reply EXCEPT !.op = "editRecord"]
          ELSE /\ graph' = graph
               /\ reply' = [reply EXCEPT !.op = "editRecord",
                                         !.connected[j].val = SetField(@, "type", v)]

\* groupConnectedNodesByType(graph, nodeId, direction) (part_002:117-134)
Group(nodeId, direction) ==
    /\ Unwritten
    /\ nodeId \in Range(graph.nodes)
    /\ LET r == groupConnectedNodesByType(graph, nodeId, direction)
       IN reply' = [op |-> "groupConnectedNodesByType", node |-> nodeId,
                    direction |-> direction,
                    reported |-> neighborFn(graph, nodeId, direction),
                    connected |-> r.connected, grouped |-> r.grouped,
                    thrown |-> r.thrown]
    /\ UNCHANGED graph

\* graphologyToD3(graph) (export.ts:7-23)
ToD3 ==
    /\ Unwritten
    /\ LET r == graphologyToD3(graph)
       IN reply' = [op |-> "graphologyToD3", nodes |-> r.nodes, links |-> r.links]
    /\ UNCHANGED graph

NextGraph ==
    \/ \E a \in AttrMaps : AddNode(a) /\ UNCHANGED <<pipeVars, aggVars>>
    \/ \E s \in Range(StoreKeys), t \in Range(StoreKeys) :
           AddEdge(s, t) /\ UNCHANGED <<pipeVars, aggVars>>
    \/ \E n \in Range(StoreKeys), d \in Directions :
           GetConnected(n, d) /\ UNCHANGED <<pipeVars, aggVars>>
    \/ \E n \in Range(StoreKeys) : SetNodeAttribute(n, "edited") /\ UNCHANGED <<pipeVars, aggVars>>
    \/ \E j \in 1..Len(StoreKeys) : EditRecord(j, "edited") /\ UNCHANGED <<pipeVars, aggVars>>
    \/ \E n \in Range(StoreKeys), d \in Directions :
           Group(n, d) /\ UNCHANGED <<pipeVars, aggVars>>
    \/ ToD3 /\ UNCHANGED <<pipeVars, aggVars>>

SpecGraph == InitGraph /\ [][NextGraph]_vars

----------------------------------------------------------------------------
(* Step factories (part_002:331-380) and the steps given to them *)

\* A value a step gets or returns: a number or undefined.
Num(n) == [num |-> n]
NumInputs == {Num(i) : i \in Inputs}

\* (_node, attributes) => attributes.type === "item" (part_001:36)
Satisfies(node, attributes) == "type" \in DOMAIN attributes /\ attributes.type = "item"

\* A filterNodes that selects every node.
filterNodesAll(g) == g.nodes

\* context.graph.filterNodes(nodeFilter) (part_002:336): the keys of the
\* nodes that satisfy the predicate, in the order of the nodes.
filterNodes(g) == SelectSeq(g.nodes, LAMBDA n : Satisfies(n, g.attrs[n]))

\* The actions given to createBatchProcessor: "read" writes nothing,
\* "retire" sets the type of its node to "", "retireAll" the type of every
\* node to "", "promoteAll" the type of every node to "item"
\* (graph.updateNodeAttribute as in part_001:110-114).
BatchActions == {"read", "retire", "retireAll", "promoteAll"}

processFn(act, nodeId, g) ==
    CASE act = "retire" -> [g EXCEPT !.attrs[nodeId] = SetField(@, "type", "")]
      [] act = "retireAll" ->
            [g EXCEPT !.attrs = [n \in DOMAIN g.attrs |-> SetField(g.attrs[n], "type", "")]]
      [] act = "promoteAll" ->
            [g EXCEPT !.attrs = [n \in DOMAIN g.attrs |-> SetField(g.attrs[n], "type", "item")]]
      [] OTHER -> g

\* A loop that asks the predicate again when it comes to a node, and passes
\* over a node that does not satisfy it any more.
RECURSIVE BatchLoopLive(_, _, _, _)
BatchLoopLive(act, nodes, i, st) ==
    IF i > Len(nodes) THEN st
    ELSE IF ~Satisfies(nodes[i], st.graph.attrs[nodes[i]])
    THEN BatchLoopLive(act, nodes, i + 1, st)
    ELSE BatchLoopLive(act, nodes, i + 1,
             [graph |-> processFn(act, nodes[i], st.graph),
              calls |-> Append(st.calls, [node |-> nodes[i], seen |-> st.graph])])

\* for (const node of nodes) processFn(node, context) from index i on
\* (part_002:337-339); st = [graph, calls].
RECURSIVE BatchLoop(_, _, _, _)
BatchLoop(act, nodes, i, st) ==
    IF i > Len(nodes) THEN st
    ELSE BatchLoop(act, nodes, i + 1,
             [graph |-> processFn(act, nodes[i], st.graph),
              calls |-> Append(st.calls, [node |-> nodes[i], seen |-> st.graph])])

\* The step createBatchProcessor returns, on (input, context) (part_002:335-340);
\* it has no return statement.
createBatchProcessor(act, input, g) ==
    LET nodes == filterNodes(g)
        r == BatchLoop(act, nodes, 1, [graph |-> g, calls |-> <<>>])
    IN [ret |-> Undefined, graph |-> r.graph, calls |-> r.calls]

\* The steps given to the conditional and to the fan-out: "inc" returns
\* input + 1, "count" returns the number of nodes of type "item", "promote"
\* is createNodeAttributeUpdater(first node, "type", () => "item")
\* (part_002:217-231) and returns nothing.
LeafKinds == {"inc", "count", "promote"}

Leaf(kind, input, g) ==
    CASE kind = "inc" -> [ret |-> Num((input.num + 1) % ValMod), graph |-> g]
      [] kind = "count" ->
            [ret |-> Num(Len(filterNodes(g))), graph |-> g]
      [] OTHER ->
            [ret |-> Undefined,
             graph |-> [g EXCEPT !.attrs[g.nodes[1]] = SetField(@, "type", "item")]]

\* The conditions given to createConditionalProcessor, on (input, context).
Conditions == {"isZero", "anyItem"}
condition(cond, input, g) ==
    IF cond = "isZero" THEN input.num = 0 ELSE filterNodes(g) # <<>>

Called(kind, input, g) == [kind |-> kind, input |-> input, seen |-> g]

\* A conditional that returns undefined when the condition is false and no
\* else-step was given.
ConditionalNoPassThrough(cond, thenProcessor, elseProcessor, input, g) ==
    LET c == Called("condition", input, g)
    IN IF condition(cond, input, g)
       THEN LET r == Leaf(thenProcessor, input, g)
            IN [ret |-> r.ret, graph |-> r.graph,
                calls |-> <<c, Called(thenProcessor, input, g)>>]
       ELSE IF elseProcessor # "none"
       THEN LET r == Leaf(elseProcessor, input, g)
            IN [ret |-> r.ret, graph |-> r.graph,
                calls |-> <<c, Called(elseProcessor, input, g)>>]
       ELSE [ret |-> Undefined, graph |-> g, calls |-> <<c>>]

\* The step createConditionalProcessor returns, on (input, context)
\* (part_002:355-362); elseProcessor is "none" when none was given.
createConditionalProcessor(cond, thenProcessor, elseProcessor, input, g) ==
    LET c == Called("condition", input, g)
    IN IF condition(cond, input, g)
       THEN LET r == Leaf(thenProcessor, input, g)
            IN [ret |-> r.ret, graph |-> r.graph,
                calls |-> <<c, Called(thenProcessor, input, g)>>]
       ELSE IF elseProcessor # "none"
       THEN LET r == Leaf(elseProcessor, input, g)
            IN [ret |-> r.ret, graph |-> r.graph,
                calls |-> <<c, Called(elseProcessor, input, g)>>]
       ELSE [ret |-> input, graph |-> g, calls |-> <<c>>]

\* processors.map((processor) => processor(input, context)) from index i on
\* (part_002:377): one branch after the other, each on the graph as the
\* branches before have left it; st = [graph, results, calls].
RECURSIVE ParallelMap(_, _, _, _)
ParallelMap(procs, i, input, st) ==
    IF i > Len(procs) THEN st
    ELSE LET r == Leaf(procs[i], input, st.graph)
         IN ParallelMap(procs, i + 1, input,
                [graph |-> r.graph,
                 results |-> Append(st.results, r.ret),
                 calls |-> Append(st.calls, Called(procs[i], input, st.graph))])

\* combineFn(results): the combine given here returns the list it gets.
combineFn(results) == [list |-> results]

\* The step createParallelProcessor returns, on (input, context)
\* (part_002:376-379).
createParallelProcessor(procs, input, g) ==
    LET r == ParallelMap(procs, 1, input, [graph |-> g, results |-> <<>>, calls |-> <<>>])
    IN [ret |-> combineFn(r.results), graph |-> r.graph, calls |-> r.calls]

\* A pipeline invokes the batch step on (input, context) (part_002:47).
Batch(act, input) ==
    /\ LET r == createBatchProcessor(act, input, graph)
       IN /\ graph' = r.graph
          /\ reply' = [op |-> "batch", act |-> act, input |-> input, graph0 |-> graph,
                       calls |-> r.calls, ret |-> r.ret]

\* A pipeline invokes the conditional step on (input, context).
Conditional(cond, thenProcessor, elseProcessor, input) ==
    /\ graph.nodes # <<>>
    /\ LET r == createConditionalProcessor(cond, thenProcessor, elseProcessor, input, graph)
       IN /\ graph' = r.graph
          /\ reply' = [op |-> "conditional", cond |-> cond, then |-> thenProcessor,
                       else |-> elseProcessor, input |-> input, graph0 |-> graph,
                       calls |-> r.calls, ret |-> r.ret]

\* A pipeline invokes the fan-out step on (input, context).
Parallel(procs, input) ==
    /\ graph.nodes # <<>>
    /\ LET r == createParallelProcessor(procs, input, graph)
       IN /\ graph' = r.graph
          /\ reply' = [op |-> "parallel", procs |-> procs, input |-> input,
                       graph0 |-> graph, calls |-> r.calls, ret |-> r.ret]

NextSteps ==
    \/ \E a \in AttrMaps : AddNode(a) /\ UNCHANGED <<pipeVars, aggVars>>
    \/ \E act \in BatchActions, input \in NumInputs \cup {Undefined} :
           Batch(act, input) /\ UNCHANGED <<pipeVars, aggVars>>
    \/ \E cond \in Conditions, t \in LeafKinds, e \in LeafKinds \cup {"none"},
          input \in NumInputs :
           Conditional(cond, t, e, input) /\ UNCHANGED <<pipeVars, aggVars>>
    \/ \E procs \in SeqsUpTo(LeafKinds, MaxBranches), input \in NumInputs :
           Parallel(procs, input) /\ UNCHANGED <<pipeVars, aggVars>>

SpecSteps == InitGraph /\ [][NextSteps]_vars

----------------------------------------------------------------------------
(* Properties of the pipeline *)

\* The steps among the first k of procs of one of the kinds.
CountUpTo(procs, k, kinds) == Cardinality({i \in 1..k : procs[i] \in kinds})

\* The index of the first step of procs that throws, 0 if none does.
FirstThrow(procs) ==
    LET f == {i \in 1..Len(procs) : Throws(procs[i])}
    IN IF f = {} THEN 0 ELSE CHOOSE i \in f : \A j \in f : i <= j

\* calls is a complete run of procs on x that returned out: every step once,
\* in insertion order, the first on x, each on its predecessor's output and,
\* as context, on the object the pipeline referred to when the step started
\* (ctxAt + the updateContext calls of the steps before it).
CompleteRun(procs, calls, x, out, ctxAt) ==
    LET n == Len(procs)
        Ret(i) == StepOut(procs[i], calls[i].input, ctxHeap[calls[i].ctx])
    IN /\ Len(calls) = n
       /\ \A i \in 1..n :
             /\ calls[i].kind = procs[i]
             /\ calls[i].input = IF i = 1 THEN x ELSE Ret(i - 1)
             /\ calls[i].ctx = ctxAt + CountUpTo(procs, i - 1, UpdKinds)
       /\ out = IF n = 0 THEN x ELSE Ret(n)

\* C1: an execute(x) that returns has invoked every step exactly once, in
\* insertion order, s1 on x and every other step on the output of the step
\* before it, each with the pipeline's context, and returns the output of
\* the last step; with no step it returns x.
C1_ExecuteComposes ==
    (last.op = "execute" /\ ~last.thrown) =>
        /\ Len(last.outs) = 1
        /\ CompleteRun(processors, last.runs[1], last.inputs[1], last.outs[1], last.ctx0)

C1_Witness ==
    /\ last.op = "execute"
    /\ ~last.thrown
    /\ processors = <<"scale", "inc", "scale">>
    /\ applyMapping("mult", "tier", ctxHeap[context], 0) = 1
    /\ last.inputs = <<1>>
    /\ last.outs = <<4>>

\* C2: when step k throws during execute, the error reaches the caller, the
\* steps invoked are exactly steps 1..k, each once, and the store holds every
\* write of steps 1..k, the write step k made before it threw included.
C2_StepFailureAborts ==
    (last.op = "execute" /\ FirstThrow(processors) > 0) =>
        LET k == FirstThrow(processors)
            calls == last.runs[1]
        IN /\ last.thrown
           /\ last.outs = <<>>
           /\ Len(calls) = k
           /\ \A i \in 1..k : calls[i].kind = processors[i]
           /\ store = last.store0 + CountUpTo(processors, k, WriteKinds)

C2_Witness ==
    /\ last.op = "execute"
    /\ last.thrown
    /\ processors = <<"write", "writefail", "write">>
    /\ store = last.store0 + 2

\* C3: an executeMany(inputs) that returns gives one output per input, the
\* i-th being the output of a complete run of the steps on inputs[i], the
\* runs made in list order.
C3_ExecuteManyMaps ==
    (last.op = "executeMany" /\ ~last.thrown) =>
        LET n == Len(last.inputs)
            upds == Count(processors, UpdKinds)
        IN /\ Len(last.outs) = n
           /\ Len(last.runs) = n
           /\ \A i \in 1..n :
                 CompleteRun(processors, last.runs[i], last.inputs[i], last.outs[i],
                             last.ctx0 + (i - 1) * upds)

C3_Witness ==
    /\ last.op = "executeMany"
    /\ ~last.thrown
    /\ last.inputs = <<0, 1>>
    /\ processors = <<"inc", "scale">>
    /\ last.outs = <<2, 4>>

\* C4: after updateContext(partial) the context has, for every top-level
\* key of partial, the value of partial, whole, and for every other key the
\* value it had; the objects that existed before the call are as they were,
\* the one the pipeline referred to included.
C4_UpdateContextMerges ==
    (last.op = "updateContext") =>
        LET new == ctxHeap[context]
            old == last.heap0[last.ctx0]
            u == last.partial
        IN /\ DOMAIN new = (DOMAIN old) \cup (DOMAIN u)
           /\ \A k \in DOMAIN u : new[k] = u[k]
           /\ \A k \in (DOMAIN old) \ (DOMAIN u) : new[k] = old[k]
           /\ context \notin DOMAIN last.heap0
           /\ \A r \in DOMAIN last.heap0 : ctxHeap[r] = last.heap0[r]

C4_Witness ==
    /\ last.op = "updateContext"
    /\ held = last.ctx0
    /\ last.partial = [mappings |-> [mult |-> [tier |-> 2]]]
    /\ ctxHeap[held] = [graph |-> GraphRef,
                        mappings |-> [mult |-> [tier |-> 1], bonus |-> [tier |-> 2]]]
    /\ ctxHeap[context] = [graph |-> GraphRef, mappings |-> [mult |-> [tier |-> 2]]]

----------------------------------------------------------------------------
(* Properties of the link aggregation *)

rowLinks == rows.links
rowNodes == rows.nodes

Sources == {rowLinks[i].source : i \in 1..Len(rowLinks)}

\* Some node of the nodes list has the id.
HasNode(id) == \E j \in 1..Len(rowNodes) : rowNodes[j].id = id

\* The node of the nodes list with the id (ids are unique).
NodeOf(id) == rowNodes[CHOOSE j \in 1..Len(rowNodes) : rowNodes[j].id = id]

\* Link i is the first link of its source.
FirstOfSource(i) == \A j \in 1..(i - 1) : rowLinks[j].source # rowLinks[i].source

\* The sources of the links, each at its first occurrence.
RECURSIVE FirstSeen(_)
FirstSeen(ls) ==
    IF ls = <<>> THEN <<>>
    ELSE LET before == FirstSeen(SubSeq(ls, 1, Len(ls) - 1))
             s == ls[Len(ls)].source
         IN IF \E j \in 1..Len(before) : before[j] = s THEN before ELSE Append(before, s)

\* The events of callback cb in the trace.
EventsOf(t, cb) == SelectSeq(t, LAMBDA e : e.cb = cb)

\* The loop is at a link.
AtLink == pc = "scan" /\ pos <= Len(rowLinks)

\* The error graphologyToMD throws for the link at pos.
MissingSourceError ==
    [origin |-> "graphologyToMD", source |-> rowLinks[pos].source, target |-> rowLinks[pos].target]

\* C5: the mapping handed to the sink has exactly the distinct sources of
\* the links as keys, each once, and so no key for a node that is the source
\* of no link.
C5_OneRecordPerSource ==
    (pc = "done") =>
        /\ Len(sunk) = 1
        /\ DOMAIN sunk[1].rec = Sources
        /\ {sunk[1].keys[j] : j \in 1..Len(sunk[1].keys)} = Sources
        /\ Len(sunk[1].keys) = Cardinality(Sources)

C5_Witness ==
    /\ pc = "done"
    /\ Len(rowLinks) = 3
    /\ Len(rowNodes) = 2
    /\ Sources = {"A"}
    /\ \E i \in 1..3 : rowLinks[i].target = "B"
    /\ DOMAIN sunk[1].rec = {"A"}

\* C6: the mapping handed to the sink lists the sources in the order of
\* their first link, whatever the order of the nodes list; a later link of a
\* source leaves the source where it is.
C6_FirstSeenOrder ==
    (pc = "done") => sunk[1].keys = FirstSeen(rowLinks)

C6_Witness ==
    /\ pc = "done"
    /\ Len(rowLinks) = 3
    /\ rowLinks[1].source = "B" /\ rowLinks[2].source = "A" /\ rowLinks[3].source = "B"
    /\ rowNodes[1].id = "A" /\ rowNodes[2].id = "B"
    /\ sunk[1].keys = <<"B", "A">>

\* C7: at a link whose source has no record and no node, the pass fails
\* with the error that names the source and the target of that link; the
\* link is not folded, and from the failed pass nothing more happens: no
\* link is folded, the sink is not invoked.
C7_MissingSourceAborts ==
    /\ [][(AtLink /\ ~MapHas(items, rowLinks[pos].source) /\ ~HasNode(rowLinks[pos].source))
            => /\ pc' = "failed"
               /\ err' = MissingSourceError
               /\ EventsOf(trace', "processLink") = EventsOf(trace, "processLink")
               /\ sunk' = sunk /\ items' = items]_vars
    /\ [][pc = "failed" => FALSE]_vars
    /\ [](pc = "failed" => sunk = <<>>)

C7_Witness ==
    /\ pc = "failed"
    /\ err = [origin |-> "graphologyToMD", source |-> "B", target |-> "A"]
    /\ ~HasNode("B")
    /\ pos = 2 /\ Len(rowLinks) = 3
    /\ Len(EventsOf(trace, "processLink")) = 1

\* C8: with a node filter, at a link whose source node is in the nodes list
\* and is rejected by the filter, the pass fails with the same error as for
\* a source without node; the filter is called only at the first link of a
\* source, never at a link whose source has a record.
C8_FilterRejectsSource ==
    /\ [][(/\ AtLink /\ useFilter
           /\ HasNode(rowLinks[pos].source)
           /\ ~nodeFilter(NodeOf(rowLinks[pos].source)))
            => (pc' = "failed" /\ err' = MissingSourceError /\ items' = items)]_vars
    /\ [][(AtLink /\ MapHas(items, rowLinks[pos].source))
            => EventsOf(trace', "nodeFilter") = EventsOf(trace, "nodeFilter")]_vars
    /\ [](\A j \in 1..Len(trace) :
             trace[j].cb = "nodeFilter" =>
                 /\ useFilter
                 /\ FirstOfSource(trace[j].link)
                 /\ trace[j].node = rowLinks[trace[j].link].source)

C8_Witness ==
    /\ pc = "failed"
    /\ useFilter
    /\ err.origin = "graphologyToMD"
    /\ HasNode(err.source)
    /\ NodeOf(err.source).type = "tier"
    /\ pos = 3
    /\ rowLinks[1].source = rowLinks[2].source
    /\ Len(EventsOf(trace, "nodeFilter")) = 2

\* C9: at every link that gets past the source lookup, the fold is invoked
\* with the node that has the id of the target, whatever the filter says of
\* it, and with undefined when no node has that id; with an undefined target
\* the pass fails exactly when the fold throws, and then with the fold's
\* error.  graphologyToMD throws its own error only for a source.
C9_TargetLookupUnfiltered ==
    /\ [][(/\ AtLink
           /\ \/ MapHas(items, rowLinks[pos].source)
              \/ /\ HasNode(rowLinks[pos].source)
                 /\ useFilter => nodeFilter(NodeOf(rowLinks[pos].source)))
            => LET t == rowLinks[pos].target
                   e == trace'[Len(trace')]
               IN /\ Len(trace') > Len(trace)
                  /\ e = Event("processLink", pos, IF HasNode(t) THEN t ELSE "undefined")
                  /\ ~HasNode(t) =>
                        /\ (pc' = "failed") <=> (fold = "example")
                        /\ pc' = "failed" => err'.origin = "processLink"
                        /\ pc' # "failed" => (pos' = pos + 1 /\ err' = NoError)]_vars
    /\ [](err.origin = "graphologyToMD" =>
             /\ pc = "failed"
             /\ FirstOfSource(pos)
             /\ (~HasNode(rowLinks[pos].source)
                   \/ (useFilter /\ ~nodeFilter(NodeOf(rowLinks[pos].source)))))

C9_Witness ==
    /\ pc = "done"
    /\ fold = "lenient"
    /\ useFilter
    /\ Len(rowLinks) = 2
    /\ ~HasNode("B")
    /\ \E j \in 1..Len(trace) : trace[j] = Event("processLink", 2, "undefined")
    /\ DOMAIN sunk[1].rec = {"A"}

\* C10: the sink is invoked at most once, and then after the fold has been
\* invoked for every link, in order; a pass that ends without failure has
\* invoked it exactly once, with the empty mapping when there is no link; a
\* pass that failed has not invoked it.
C10_SinkOnceAtEnd ==
    /\ Len(sunk) <= 1
    /\ Len(EventsOf(trace, "generateMarkdown")) = Len(sunk)
    /\ pc = "scan" => (sunk = <<>> /\ pos <= Len(rowLinks) + 1)
    /\ pc = "failed" => (sunk = <<>> /\ err # NoError)
    /\ pc = "done" =>
          /\ Len(sunk) = 1
          /\ err = NoError
          /\ sunk[1] = items
          /\ rowLinks = <<>> => sunk[1] = EmptyMap
          /\ trace[Len(trace)].cb = "generateMarkdown"
          /\ LET f == EventsOf(trace, "processLink")
             IN Len(f) = Len(rowLinks) /\ \A i \in 1..Len(f) : f[i].link = i

C10_Witness ==
    /\ pc = "done"
    /\ Len(rowLinks) = 3
    /\ Len(sunk) = 1
    /\ Len(EventsOf(trace, "processLink")) = 3

C10_WitnessEmpty ==
    /\ pc = "done"
    /\ rowLinks = <<>>
    /\ sunk = <<EmptyMap>>

\* C11: the mappings that the calls of graphologyToMD on the same rows, each
\* from its own new Map, hand to the sink have the same keys in the same
\* order and, key by key, records with equal fields.
C11_RescanSameResult ==
    \A i \in 1..Len(sunk) : \A j \in 1..Len(sunk) :
        /\ sunk[i].keys = sunk[j].keys
        /\ DOMAIN sunk[i].rec = DOMAIN sunk[j].rec
        /\ \A k \in DOMAIN sunk[i].rec : sunk[i].rec[k] = sunk[j].rec[k]

C11_Witness ==
    /\ Len(sunk) = 2
    /\ fold = "tally"
    /\ Len(rowLinks) = 3
    /\ sunk[2].keys = <<"A", "B">>
    /\ sunk[1].rec["A"].attributes = ("B" :> 14)
    /\ sunk[2].rec["A"].attributes = ("B" :> 14)

\* The links of source s whose target node has type "attribute".
AttributeLinks(s) ==
    {i \in 1..Len(rowLinks) :
        /\ rowLinks[i].source = s
        /\ HasNode(rowLinks[i].target)
        /\ NodeOf(rowLinks[i].target).type = "attribute"}

\* C19: after a pass with the example fold, the record of every source has
\* in attributes exactly one entry per target of type "attribute" among its
\* links, holding the amount of the link to that target, 0 when the link has
\* no amount, and no entry for a target of another type.
C19_AttributeAmounts ==
    (pc = "done" /\ fold = "example") =>
        \A s \in Sources :
            LET a == sunk[1].rec[s].attributes
            IN /\ DOMAIN a = {rowLinks[i].target : i \in AttributeLinks(s)}
               /\ \A i \in AttributeLinks(s) :
                     a[rowLinks[i].target] =
                         IF "amount" \in DOMAIN rowLinks[i] THEN rowLinks[i].amount ELSE 0

C19_Witness ==
    /\ pc = "done"
    /\ fold = "example"
    /\ rowNodes = <<[id |-> "A", name |-> "Alpha", type |-> "item"],
                    [id |-> "B", name |-> "Beta", type |-> "attribute"]>>
    /\ rowLinks = <<[source |-> "A", target |-> "B", amount |-> 7]>>
    /\ sunk[1].rec["A"].attributes = ("B" :> 7)

\* A link to a target of type "attribute" that carries no amount gives 0.
C19_WitnessNoAmount ==
    /\ pc = "done"
    /\ fold = "example"
    /\ rowLinks = <<[source |-> "B", target |-> "A"],
                    [source |-> "B", target |-> "B", amount |-> 7]>>
    /\ sunk[1].rec["B"].attributes = ("A" :> 0)

\* The place of a callback among the callbacks of one link.
Rank(cb) ==
    CASE cb = "nodeFilter" -> 1
      [] cb = "createEmptyItem" -> 2
      [] cb = "populateItemFromNode" -> 3
      [] cb = "processLink" -> 4
      [] OTHER -> 5

\* The links 1..n that are the first of their source, in order.
RECURSIVE FirstLinks(_)
FirstLinks(n) ==
    IF n = 0 THEN <<>>
    ELSE IF FirstOfSource(n) THEN Append(FirstLinks(n - 1), n) ELSE FirstLinks(n - 1)

\* The record of source s after its links among the first n have been folded
\* in order into the one record made from the node of s.
RECURSIVE FoldedRecord(_, _)
FoldedRecord(s, n) ==
    IF n = 0
    THEN populateItemFromNode(createEmptyItem, NodeOf(s))
    ELSE IF rowLinks[n].source = s
         THEN processLink(fold, FoldedRecord(s, n - 1), rowLinks[n],
                          IF HasNode(rowLinks[n].target) THEN NodeOf(rowLinks[n].target)
                          ELSE Undefined).data
         ELSE FoldedRecord(s, n - 1)

\* C20: in a pass the factory and populate are called once per distinct
\* source, at the first link of the source and before the fold of that link
\* (populate with the node of the source); the fold is called once per link,
\* in link order; and the record of a source holds the folds of all its
\* links so far, made one after the other on the record created at its
\* first link.
C20_OneRecordFoldedInPlace ==
    LET cr == EventsOf(trace, "createEmptyItem")
        po == EventsOf(trace, "populateItemFromNode")
        fo == EventsOf(trace, "processLink")
        folded == Len(fo)
    IN /\ [j \in 1..Len(cr) |-> cr[j].link] = FirstLinks(folded)
       /\ [j \in 1..Len(po) |-> po[j].link] = FirstLinks(folded)
       /\ \A j \in 1..Len(po) : po[j].node = rowLinks[po[j].link].source
       /\ \A j \in 1..Len(fo) : fo[j].link = j
       /\ pc = "scan" => folded = pos - 1
       /\ pc = "done" => folded = Len(rowLinks)
       /\ \A a \in 1..Len(trace) : \A b \in (a + 1)..Len(trace) :
             trace[b].cb # "generateMarkdown" =>
                 \/ trace[a].link < trace[b].link
                 \/ /\ trace[a].link = trace[b].link
                    /\ Rank(trace[a].cb) <= Rank(trace[b].cb)
       /\ \A s \in DOMAIN items.rec :
             items.rec[s] = FoldedRecord(s, IF pc = "failed" THEN pos - 1 ELSE folded)

C20_Witness ==
    /\ pc = "done"
    /\ fold = "example"
    /\ Len(rowLinks) = 3
    /\ Sources = {"A"}
    /\ Len(EventsOf(trace, "createEmptyItem")) = 1
    /\ Len(EventsOf(trace, "populateItemFromNode")) = 1
    /\ Len(EventsOf(trace, "processLink")) = 3
    /\ HasNode("B")
    /\ NodeOf("B").type = "tier"
    /\ sunk[1].rec["A"].tier = "Beta"
    /\ sunk[1].rec["A"].name = "Alpha"

----------------------------------------------------------------------------
(* Properties of the neighbor grouping and of the export *)

\* The group a record belongs to by its "type" attribute.
GroupKey(rec) ==
    IF "type" \in DOMAIN rec THEN (IF rec.type = "" THEN "unknown" ELSE rec.type)
    ELSE "unknown"

\* record c is the record of node id: it has every attribute of the node.
RecordOf(c, id) ==
    \A f \in DOMAIN graph.attrs[id] : f \in DOMAIN c /\ c[f] = graph.attrs[id][f]

\* C12: groupConnectedNodesByType returns groups that partition the records
\* of getConnectedNodes: every record stands in exactly one group, under the
\* key that is its "type" attribute, or "unknown" when the type is missing
\* or falsy, and the groups hold nothing else; for every type string.
C12_GroupsPartition ==
    (reply.op = "groupConnectedNodesByType") =>
        /\ ~reply.thrown
        /\ \A j \in 1..Len(reply.connected) :
              LET r == reply.connected[j]
                  k == GroupKey(View(graph, r))
              IN /\ k \in DOMAIN reply.grouped
                 /\ \E i \in 1..Len(reply.grouped[k]) : reply.grouped[k][i] = r
                 /\ \A k2 \in DOMAIN reply.grouped :
                       k2 # k => r \notin Range(reply.grouped[k2])
        /\ \A k \in DOMAIN reply.grouped :
              /\ reply.grouped[k] # <<>>
              /\ Range(reply.grouped[k]) \subseteq Range(reply.connected)

\* C13: in every group that groupConnectedNodesByType returns, the records
\* stand in the order in which the store reported their nodes for the
\* direction asked: the group of a key is the list of the records of that
\* key, as reported.
C13_GroupOrderAsReported ==
    (reply.op = "groupConnectedNodesByType" /\ ~reply.thrown) =>
        /\ Len(reply.connected) = Len(reply.reported)
        /\ reply.reported = neighborFn(graph, reply.node, reply.direction)
        /\ \A j \in 1..Len(reply.reported) :
              RecordOf(View(graph, reply.connected[j]), reply.reported[j])
        /\ \A k \in DOMAIN reply.grouped :
              reply.grouped[k] =
                  SelectSeq(reply.connected, LAMBDA r : GroupKey(View(graph, r)) = k)

C13_Witness ==
    /\ reply.op = "groupConnectedNodesByType"
    /\ ~reply.thrown
    /\ reply.node = "A" /\ reply.direction = "out"
    /\ reply.reported = <<"C", "B">>
    /\ graph.attrs["B"] = [type |-> "item"] /\ graph.attrs["C"] = [type |-> "item"]
    /\ DOMAIN reply.grouped = {"item"}
    /\ View(graph, reply.grouped["item"][1]).id = "C"
    /\ View(graph, reply.grouped["item"][2]).id = "B"

\* The order holds for the direction "both" too: the in-neighbor first.
C13_WitnessBoth ==
    /\ reply.op = "groupConnectedNodesByType"
    /\ ~reply.thrown
    /\ reply.node = "A" /\ reply.direction = "both"
    /\ Len(graph.edges) = 2
    /\ graph.edges[1].source = "A" /\ graph.edges[1].target = "B"
    /\ graph.edges[2].source = "C"
    /\ reply.reported = <<"C", "B">>
    /\ "unknown" \in DOMAIN reply.grouped
    /\ Len(reply.grouped["unknown"]) = 2

\* C14: the records of getConnectedNodes hold the attributes the neighbors
\* had at the call; a write to a neighbor in the store afterwards leaves
\* every record as it was, and a write to a record leaves the store as it was.
C14_RecordsAreSnapshots ==
    /\ [](reply.op = "getConnectedNodes" =>
             /\ Len(reply.connected) = Len(reply.reported)
             /\ \A j \in 1..Len(reply.reported) :
                   RecordOf(View(graph, reply.connected[j]), reply.reported[j]))
    /\ [][(reply.op = "getConnectedNodes" /\ reply'.op = "setNodeAttribute") =>
             /\ graph' # graph
             /\ \A j \in 1..Len(reply.connected) :
                   View(graph', reply'.connected[j]) = View(graph, reply.connected[j])]_vars
    /\ [][(reply.op = "getConnectedNodes" /\ reply'.op = "editRecord") =>
             /\ graph' = graph
             /\ \E j \in 1..Len(reply.connected) :
                   View(graph', reply'.connected[j]) # View(graph, reply.connected[j])]_vars

C14_Witness ==
    /\ reply.op = "setNodeAttribute"
    /\ reply.node = "A" /\ reply.direction = "out"
    /\ reply.reported = <<"B">>
    /\ graph.attrs["B"] = [type |-> "edited"]
    /\ View(graph, reply.connected[1]) = [id |-> "B", type |-> "item"]

\* A record written by the caller, the store as it was.
C14_WitnessEdit ==
    /\ reply.op = "editRecord"
    /\ reply.reported = <<"B">>
    /\ graph.attrs["B"] = [type |-> "item"]
    /\ View(graph, reply.connected[1]) = [id |-> "B", type |-> "edited"]

\* C18: graphologyToD3 returns one node entry per node of the store, in the
\* order of graph.nodes(), with the id of the node, and one link entry per
\* edge, in the order of graph.edges(), with the source and the target of
\* the edge, whatever the attributes.
C18_ExportMirrorsStore ==
    (reply.op = "graphologyToD3") =>
        /\ Len(reply.nodes) = Len(graph.nodes)
        /\ \A j \in 1..Len(graph.nodes) : reply.nodes[j].id = graph.nodes[j]
        /\ Len(reply.links) = Len(graph.edges)
        /\ \A j \in 1..Len(graph.edges) :
              /\ reply.links[j].source = graph.edges[j].source
              /\ reply.links[j].target = graph.edges[j].target

----------------------------------------------------------------------------
(* Properties of the step factories *)

\* The nodes of type "item" of a graph, in the order of the nodes.
ItemsOf(g) ==
    SelectSeq(g.nodes, LAMBDA n : "type" \in DOMAIN g.attrs[n] /\ g.attrs[n].type = "item")

\* C15: a batch step calls its action once for every node that satisfies
\* the predicate when the step starts, in the order of the nodes of the
\* store, and for no other node; whatever its input, it returns undefined.
C15_BatchVisitsMatching ==
    (reply.op = "batch") =>
        /\ [j \in 1..Len(reply.calls) |-> reply.calls[j].node] = ItemsOf(reply.graph0)
        /\ reply.ret = Undefined

C15_Witness ==
    /\ reply.op = "batch"
    /\ reply.graph0.nodes = <<"A", "B">>
    /\ reply.graph0.attrs["A"] = [type |-> "item"]
    /\ reply.graph0.attrs["B"] = [type |-> ""]
    /\ Len(reply.calls) = 1
    /\ reply.calls[1].node = "A"
    /\ reply.input = Num(1)

\* Two matching nodes around one that does not match, called in node order.
C15_WitnessOrder ==
    /\ reply.op = "batch"
    /\ reply.input = Undefined
    /\ ItemsOf(reply.graph0) = <<"A", "C">>
    /\ Len(reply.graph0.nodes) = 3
    /\ Len(reply.calls) = 2
    /\ reply.calls[1].node = "A" /\ reply.calls[2].node = "C"

\* C16: every branch of a fan-out gets the input of the fan-out and finds
\* the store as it was before the first branch ran, so that a branch that
\* counts the nodes of type "item" returns their number before the fan-out.
C16_BranchesSeeInputState ==
    (reply.op = "parallel") =>
        /\ Len(reply.calls) = Len(reply.procs)
        /\ \A j \in 1..Len(reply.calls) :
              /\ reply.calls[j].kind = reply.procs[j]
              /\ reply.calls[j].input = reply.input
              /\ reply.calls[j].seen = reply.graph0
              /\ reply.procs[j] = "count" =>
                    reply.ret.list[j] = Num(Len(ItemsOf(reply.graph0)))

\* The condition of a conditional step, on the input and the graph it got.
Holds(cond, input, g) ==
    IF cond = "isZero" THEN input = Num(0) ELSE ItemsOf(g) # <<>>

\* C17: a conditional step evaluates its condition once, on (input, context),
\* and then calls one step, on the same (input, context): the then-step when
\* the condition holds, the else-step when it does not and one was given;
\* when it does not and none was given it calls no step, leaves the store
\* alone and returns its input.
C17_ConditionalDelegates ==
    (reply.op = "conditional") =>
        LET c == reply.calls
            truth == Holds(reply.cond, reply.input, reply.graph0)
            chosen == IF truth THEN reply.then ELSE reply.else
        IN /\ Len(c) >= 1
           /\ c[1] = [kind |-> "condition", input |-> reply.input, seen |-> reply.graph0]
           /\ \A j \in 2..Len(c) : c[j].kind # "condition"
           /\ chosen # "none" =>
                 /\ Len(c) = 2
                 /\ c[2] = [kind |-> chosen, input |-> reply.input, seen |-> reply.graph0]
                 /\ chosen = "inc" => reply.ret = Num((reply.input.num + 1) % ValMod)
                 /\ chosen = "promote" => reply.ret = Undefined
           /\ chosen = "none" =>
                 /\ Len(c) = 1
                 /\ reply.ret = reply.input
                 /\ graph = reply.graph0

C17_Witness ==
    /\ reply.op = "conditional"
    /\ reply.cond = "isZero"
    /\ reply.input = Num(1)
    /\ reply.then = "promote"
    /\ reply.else = "none"
    /\ Len(reply.calls) = 1
    /\ reply.ret = Num(1)

\* The then-step and the else-step, each the only step called.
C17_WitnessThen ==
    /\ reply.op = "conditional"
    /\ reply.cond = "anyItem"
    /\ ItemsOf(reply.graph0) # <<>>
    /\ reply.then = "inc" /\ reply.else = "promote"
    /\ reply.input = Num(1)
    /\ reply.ret = Num(2)
    /\ graph = reply.graph0

C17_WitnessElse ==
    /\ reply.op = "conditional"
    /\ reply.cond = "anyItem"
    /\ ItemsOf(reply.graph0) = <<>>
    /\ reply.then = "inc" /\ reply.else = "promote"
    /\ reply.ret = Undefined
    /\ graph # reply.graph0

----------------------------------------------------------------------------
(* Properties of the context during a run *)

\* The context a step leaves to the next one when it has called
\* updateContext with the mult table of tier set to v: mappings is v's table
\* alone, every other key is as it was.
MergedWith(c, v) ==
    /\ DOMAIN c \cup {"mappings"} = DOMAIN v
    /\ v["mappings"] = [mult |-> [tier |-> (applyMapping("mult", "tier", c, 0) + 1) % ValMod]]
    /\ \A k \in DOMAIN c \ {"mappings"} : v[k] = c[k]

\* C21: in an execute call the first step gets the context the pipeline had
\* when the call started; a step that follows a step that called
\* updateContext gets a new object, the merge of the context of that step
\* and its updates, and a step that follows another step gets the same
\* object as that step; the objects that existed when the call started, the
\* one given to the calling step included, are as they were; and after the
\* call the pipeline refers to the context the last step left.
C21_LaterStepsGetMergedContext ==
    (last.op = "execute") =>
        LET calls == last.runs[1]
            n == Len(calls)
            Left(i) == IF calls[i].kind = "upd" THEN calls[i].ctx + 1 ELSE calls[i].ctx
        IN /\ n >= 1 => calls[1].ctx = last.ctx0
           /\ \A i \in 1..n : calls[i].ctx \in DOMAIN ctxHeap
           /\ \A i \in 2..n :
                 /\ calls[i].ctx = Left(i - 1)
                 /\ calls[i - 1].kind = "upd" =>
                       /\ calls[i].ctx \notin DOMAIN last.heap0
                       /\ MergedWith(ctxHeap[calls[i - 1].ctx], ctxHeap[calls[i].ctx])
           /\ \A r \in DOMAIN last.heap0 : ctxHeap[r] = last.heap0[r]
           /\ context = IF n = 0 THEN last.ctx0 ELSE Left(n)

C21_Witness ==
    /\ last.op = "execute"
    /\ ~last.thrown
    /\ processors = <<"scale", "upd", "scale">>
    /\ last.inputs = <<1>>
    /\ ctxHeap[last.ctx0] = [graph |-> GraphRef,
                              mappings |-> [mult |-> [tier |-> 1], bonus |-> [tier |-> 2]]]
    /\ last.runs[1][2].ctx = last.ctx0
    /\ last.runs[1][3].ctx = last.ctx0 + 1
    /\ ctxHeap[context] = [graph |-> GraphRef, mappings |-> [mult |-> [tier |-> 2]]]
    /\ last.outs = <<3>>

----------------------------------------------------------------------------
(* Properties of the batch step while its action writes the store *)

\* Node n satisfies the predicate of the batch step in graph g.
IsItemIn(g, n) == "type" \in DOMAIN g.attrs[n] /\ g.attrs[n].type = "item"

\* The nodes the action of the last batch step was called on.
Processed == {reply.calls[j].node : j \in 1..Len(reply.calls)}

\* C22: the nodes a batch step processes are those that satisfied the
\* predicate before the first call of the action: a node that satisfied it
\* then is processed, once, also when at its turn it does not satisfy it any
\* more, and a node that did not is not processed, also when the action has
\* made it satisfy the predicate since.
C22_BatchNodeSetFixed ==
    (reply.op = "batch") =>
        /\ Cardinality(Processed) = Len(reply.calls)
        /\ \A n \in Range(reply.graph0.nodes) :
              /\ IsItemIn(reply.graph0, n) => n \in Processed
              /\ ~IsItemIn(reply.graph0, n) => n \notin Processed
        /\ \A j \in 1..Len(reply.calls) :
              /\ IsItemIn(reply.graph0, reply.calls[j].node)
              /\ j = 1 => reply.calls[j].seen = reply.graph0

\* The second node is processed although the action, called on the first,
\* has made it fail the predicate.
C22_Witness ==
    /\ reply.op = "batch"
    /\ reply.act = "retireAll"
    /\ Len(reply.calls) = 2
    /\ reply.calls[1].node = "A" /\ reply.calls[2].node = "C"
    /\ IsItemIn(reply.graph0, "C")
    /\ ~IsItemIn(reply.calls[2].seen, "C")

\* A node the action has made satisfy the predicate is not processed.
C22_WitnessAdded ==
    /\ reply.op = "batch"
    /\ reply.act = "promoteAll"
    /\ reply.graph0.nodes = <<"A", "B">>
    /\ ~IsItemIn(reply.graph0, "B")
    /\ IsItemIn(graph, "B")
    /\ Processed = {"A"}

----------------------------------------------------------------------------
(* Properties of the id of a neighbor record *)

\* C23: every record of getConnectedNodes, and every record in a group of
\* groupConnectedNodesByType, has as id the key under which the store holds
\* the neighbor it was made from, whatever attributes the neighbor has, an
\* attribute "id" of another value included.
C23_RecordIdIsStoreKey ==
    (reply.op \in {"getConnectedNodes", "groupConnectedNodesByType"}) =>
        /\ Len(reply.connected) = Len(reply.reported)
        /\ \A j \in 1..Len(reply.connected) :
              View(graph, reply.connected[j]).id = reply.reported[j]
        /\ reply.op = "groupConnectedNodesByType" =>
              \A k \in DOMAIN reply.grouped : \A i \in 1..Len(reply.grouped[k]) :
                  View(graph, reply.grouped[k][i]).id \in Range(reply.reported)

====
